---- MODULE Spec2Model ----
(***************************************************************************)
(* Model of src/src/extension.ts: the extension that mirrors the host's    *)
(* active resource and workspace folder into /tmp/editor_path.txt and      *)
(* /tmp/folder_path.txt.                                                   *)
(*                                                                         *)
(* JavaScript strings are sequences of one-character strings, so that      *)
(* String.prototype.includes and the falsiness of '' are computed, not     *)
(* assumed.  A value read from the host is a record [k, s]:                *)
(*   k = "str"    a string, s                                              *)
(*   k = "absent" undefined / null / not a string (some link of the        *)
(*                property chain is missing)                               *)
(*   k = "throw"  reading the property chain raises an exception           *)
(***************************************************************************)
EXTENDS Naturals, Sequences, FiniteSets

VARIABLES
    activeTextEditor,   \* vscode.window.activeTextEditor?.document?.uri.fsPath
    activeTab,          \* vscode.window.tabGroups.activeTabGroup?.activeTab
    workspaceFolders,   \* vscode.workspace.workspaceFolders
    editorFile,         \* contents of /tmp/editor_path.txt
    folderFile,         \* contents of /tmp/folder_path.txt
    ev,                 \* the last step: "init", "host", or the callback that ran
    editorW,            \* what the last callback's write of editorFile did
    folderW,            \* what the last callback's write of folderFile did
    escaped,            \* the last callback let an exception escape to the host
    twice,              \* history: the last callback repeated the one before it
    folderWritesOk,     \* history: every folder write due so far was done and succeeded
    folderPending,      \* history: folder list changed, its event has not fired yet
    ret                 \* SpecResolve only: the value resolveActivePath returned

vars == <<activeTextEditor, activeTab, workspaceFolders, editorFile, folderFile,
          ev, editorW, folderW, escaped, twice, folderWritesOk, folderPending, ret>>

host == <<activeTextEditor, activeTab, workspaceFolders>>

\* ---------------------------------------------------------------- values

Str(s) == [k |-> "str", s |-> s]
Absent == [k |-> "absent", s |-> <<>>]
Throws == [k |-> "throw", s |-> <<>>]

\* the largest number of workspace folders the host opens in the model
MaxFolders == 2

Tilde == <<"~">>
Old == <<"?">>                       \* what an earlier session left in a file
DocPath == <<"/", "d">>              \* the active editor's document
UriPath == <<"/", "u">>              \* input.uri.fsPath
ResPath == <<"/", "r">>              \* input.resource.uri.fsPath
OptPath == <<"/", "o">>              \* input.options.uri.fsPath
SlashLabel == <<"f", "/", "r">>      \* folder/readme.md
BackLabel == <<"f", "\\", "r">>      \* folder\readme.md
PlainLabel == <<"r">>                \* readme.md
FolderNames == <<"a", "b", "c", "d">>
FolderPaths == {<<"/", FolderNames[i]>> : i \in 1..MaxFolders}

Probe(p) == {Absent, Throws, Str(<<>>), Str(p)}
Labels == {Absent, Throws, Str(PlainLabel), Str(SlashLabel), Str(BackLabel)}

NoTab ==
    [present |-> FALSE, input |-> FALSE, uri |-> Absent, resource |-> Absent,
     options |-> Absent, label |-> Absent]

\* a tab whose input is undefined (the host's built-in editors): only a label
BareTabs ==
    {[present |-> TRUE, input |-> FALSE, uri |-> Absent, resource |-> Absent,
      options |-> Absent, label |-> l] : l \in Labels}

InputTabs ==
    [present : {TRUE}, input : {TRUE}, uri : Probe(UriPath),
     resource : Probe(ResPath), options : Probe(OptPath), label : Labels]

AllTabs == {NoTab} \cup BareTabs \cup InputTabs

Editors == {Absent, Throws, Str(DocPath)}

RECURSIVE SeqsUpTo(_, _)
SeqsUpTo(S, n) ==
    IF n = 0 THEN {<<>>}
    ELSE LET shorter == SeqsUpTo(S, n - 1)
         IN  shorter \cup {Append(q, x) : q \in shorter, x \in S}

\* a folder is open at most once
NoRepeat(q) == \A i, j \in DOMAIN q : q[i] = q[j] => i = j

FolderLists ==
    {[k |-> "undef", l |-> <<>>], [k |-> "throw", l |-> <<>>]}
        \cup {[k |-> "list", l |-> q] :
                q \in {x \in SeqsUpTo(FolderPaths, MaxFolders) : NoRepeat(x)}}

\* outcomes of fs.writeFileSync(path, data) with the default flag 'w':
\*   ok         opened with O_TRUNC, data written
\*   openfail   the open fails (EACCES, ENOENT, data of a wrong type): untouched
\*   writefail  opened and truncated, then the write fails (ENOSPC, EIO)
Outcomes == {"ok", "openfail", "writefail"}

\* ------------------------------------------------------- extension.ts

\* String.prototype.includes for a one-character needle
includes(s, c) == \E i \in DOMAIN s : s[i] = c

\* content || ''
OrEmpty(content) ==
    IF content.k = "str" /\ content.s # <<>> THEN content.s ELSE <<>>

\* mutant: the file is opened for appending (flag 'a') instead of rewritten
tryWrite_Append(file, content, outcome) ==
    CASE outcome = "ok" -> file \o OrEmpty(content)
      [] outcome = "openfail" -> file
      [] outcome = "writefail" -> file

\* tryWrite: the new contents of the file; every failure is caught
tryWrite(file, content, outcome) ==
    CASE outcome = "ok" -> OrEmpty(content)
      [] outcome = "openfail" -> file
      [] outcome = "writefail" -> <<>>

\* mutant: the last workspace folder instead of the first
getFolder_Last(folders) ==
    IF folders.k = "throw" THEN Throws
    ELSE IF folders.k = "list" /\ Len(folders.l) > 0
         THEN Str(folders.l[Len(folders.l)])
    ELSE Str(Tilde)

getFolder(folders) ==
    IF folders.k = "throw" THEN Throws
    ELSE IF folders.k = "list" /\ Len(folders.l) > 0 THEN Str(folders.l[1])
    ELSE Str(Tilde)

\* step 2 of resolveActivePath, the try block: the value it returns, or Absent
\* when it falls through or the catch swallows an exception
tryActiveTab(tab) ==
    IF ~(tab.present /\ tab.input) THEN Absent
    ELSE IF tab.uri.k = "throw" THEN Absent
    ELSE IF tab.uri.k = "str" THEN tab.uri
    ELSE IF tab.resource.k = "throw" THEN Absent
    ELSE IF tab.resource.k = "str" THEN tab.resource
    ELSE IF tab.options.k = "throw" THEN Absent
    ELSE IF tab.options.k = "str" /\ tab.options.s # <<>> THEN tab.options
    ELSE IF tab.label.k = "throw" THEN Absent
    ELSE IF tab.label.k = "str"
            /\ (includes(tab.label.s, "/") \/ includes(tab.label.s, "\\"))
         THEN tab.label
    ELSE Absent

\* mutant: the active tab is tried before the active text editor
resolveActivePath_TabFirst(editor, tab, folders) ==
    LET t == tryActiveTab(tab)
    IN  IF t.k = "str" THEN t
        ELSE IF editor.k = "throw" THEN Throws
        ELSE IF editor.k = "str" THEN editor
        ELSE getFolder(folders)

resolveActivePath(editor, tab, folders) ==
    IF editor.k = "throw" THEN Throws
    ELSE IF editor.k = "str" THEN editor
    ELSE LET t == tryActiveTab(tab)
         IN  IF t.k = "str" THEN t ELSE getFolder(folders)

\* ---------------------------------------------------------- callbacks

\* a callback in progress: the files, what each write did, and whether an
\* exception is propagating (nothing after the throw runs)
Entry ==
    [editor |-> editorFile, folder |-> folderFile,
     editorW |-> "none", folderW |-> "none", escaped |-> FALSE]

\* tryWrite(editorPath, resolveActivePath());
WriteEditorPath(c, outcome) ==
    LET r == resolveActivePath(activeTextEditor, activeTab, workspaceFolders)
    IN  IF c.escaped THEN c
        ELSE IF r.k = "throw" THEN [c EXCEPT !.escaped = TRUE]
        ELSE [c EXCEPT !.editor = tryWrite(c.editor, r, outcome),
                       !.editorW = outcome]

\* tryWrite(folderPath, getFolder());
WriteFolderPath(c, outcome) ==
    LET g == getFolder(workspaceFolders)
    IN  IF c.escaped THEN c
        ELSE IF g.k = "throw" THEN [c EXCEPT !.escaped = TRUE]
        ELSE [c EXCEPT !.folder = tryWrite(c.folder, g, outcome),
                       !.folderW = outcome]

WritesOk(c) == c.editorW \in {"none", "ok"} /\ c.folderW \in {"none", "ok"}

\* the callback `name` ends in c; folderDue: its code writes the folder file
Return(name, c, folderDue) ==
    /\ editorFile' = c.editor
    /\ folderFile' = c.folder
    /\ editorW' = c.editorW
    /\ folderW' = c.folderW
    /\ escaped' = c.escaped
    /\ ev' = name
    /\ twice' = IF ev # name THEN "no"
                ELSE IF editorW \in {"none", "ok"} /\ folderW \in {"none", "ok"}
                        /\ WritesOk(c) THEN "ok"
                ELSE "no"
    /\ folderWritesOk' = (folderWritesOk /\ (folderDue => c.folderW = "ok"))
    /\ folderPending' = (folderPending /\ name # "folders")
    /\ UNCHANGED <<host, ret>>

\* activate(): the listeners are registered, then the initial write
Activate ==
    /\ ev = "init"
    /\ \E o1, o2 \in Outcomes :
          Return("startup", WriteFolderPath(WriteEditorPath(Entry, o1), o2), TRUE)

\* mutant: the active-editor listener writes the folder file as well
OnDidChangeActiveTextEditor_BothFiles ==
    /\ ev \notin {"init", "pure"}
    /\ \E o1, o2 \in Outcomes :
          Return("editor", WriteFolderPath(WriteEditorPath(Entry, o1), o2), FALSE)

OnDidChangeActiveTextEditor ==
    /\ ev \notin {"init", "pure"}
    /\ \E o1 \in Outcomes :
          Return("editor", WriteEditorPath(Entry, o1), FALSE)

OnDidChangeTabs ==
    /\ ev \notin {"init", "pure"}
    /\ \E o1, o2 \in Outcomes :
          Return("tabs", WriteFolderPath(WriteEditorPath(Entry, o1), o2), TRUE)

OnDidChangeTabGroups ==
    /\ ev \notin {"init", "pure"}
    /\ \E o1, o2 \in Outcomes :
          Return("groups", WriteFolderPath(WriteEditorPath(Entry, o1), o2), TRUE)

OnDidChangeWorkspaceFolders ==
    /\ ev \notin {"init", "pure"}
    /\ \E o2 \in Outcomes :
          Return("folders", WriteFolderPath(Entry, o2), TRUE)

OnDidChangeWindowState ==
    /\ ev \notin {"init", "pure"}
    /\ \E o2 \in Outcomes :
          Return("focus", WriteFolderPath(Entry, o2), TRUE)

\* ------------------------------------------------------------- the host

\* the tab shapes the host shows in Spec: no tab, a label-only tab, and an
\* input with a path, with a throwing getter before a label, and with
\* nothing but a label (SpecResolve goes through every shape)
TabShapes ==
    {NoTab,
     [NoTab EXCEPT !.present = TRUE, !.label = Str(SlashLabel)],
     [NoTab EXCEPT !.present = TRUE, !.input = TRUE, !.uri = Str(UriPath)],
     [NoTab EXCEPT !.present = TRUE, !.input = TRUE, !.uri = Throws,
                   !.label = Str(SlashLabel)],
     [NoTab EXCEPT !.present = TRUE, !.input = TRUE, !.label = Str(BackLabel)]}

HostStep ==
    /\ ev' = "host"
    /\ editorW' = "none"
    /\ folderW' = "none"
    /\ escaped' = FALSE
    /\ twice' = "no"
    /\ UNCHANGED <<editorFile, folderFile, folderWritesOk, ret>>

SetActiveTextEditor ==
    /\ ev \notin {"init", "pure"}
    /\ \E e \in Editors \ {activeTextEditor} : activeTextEditor' = e
    /\ HostStep
    /\ UNCHANGED <<activeTab, workspaceFolders, folderPending>>

SetActiveTab ==
    /\ ev \notin {"init", "pure"}
    /\ \E t \in TabShapes \ {activeTab} : activeTab' = t
    /\ HostStep
    /\ UNCHANGED <<activeTextEditor, workspaceFolders, folderPending>>

SetWorkspaceFolders ==
    /\ ev \notin {"init", "pure"}
    /\ \E f \in FolderLists \ {workspaceFolders} : workspaceFolders' = f
    /\ folderPending' = TRUE
    /\ HostStep
    /\ UNCHANGED <<activeTextEditor, activeTab>>

Init ==
    /\ activeTextEditor \in Editors
    /\ activeTab \in TabShapes
    /\ workspaceFolders \in FolderLists
    /\ editorFile = Old
    /\ folderFile = Old
    /\ ev = "init"
    /\ editorW = "none"
    /\ folderW = "none"
    /\ escaped = FALSE
    /\ twice = "no"
    /\ folderWritesOk = TRUE
    /\ folderPending = FALSE
    /\ ret = Absent

Next ==
    \/ Activate
    \/ OnDidChangeActiveTextEditor
    \/ OnDidChangeTabs
    \/ OnDidChangeTabGroups
    \/ OnDidChangeWorkspaceFolders
    \/ OnDidChangeWindowState
    \/ SetActiveTextEditor
    \/ SetActiveTab
    \/ SetWorkspaceFolders

Spec == Init /\ [][Next]_vars

\* ------------------------------------- resolveActivePath as a function

\* every host state, every tab shape: resolveActivePath is applied once
InitResolve ==
    /\ activeTextEditor \in Editors
    /\ activeTab \in AllTabs
    /\ workspaceFolders \in FolderLists
    /\ editorFile = Old
    /\ folderFile = Old
    /\ ev = "pure"
    /\ editorW = "none"
    /\ folderW = "none"
    /\ escaped = FALSE
    /\ twice = "no"
    /\ folderWritesOk = TRUE
    /\ folderPending = FALSE
    /\ ret = Absent

Resolve ==
    /\ ev = "pure"
    /\ ret' = resolveActivePath(activeTextEditor, activeTab, workspaceFolders)
    /\ ev' = "resolved"
    /\ UNCHANGED <<host, editorFile, folderFile, editorW, folderW, escaped,
                   twice, folderWritesOk, folderPending>>

NextResolve == Resolve

SpecResolve == InitResolve /\ [][NextResolve]_vars

\* ---------------------------------------------------------------- claims

PathEvents == {"startup", "editor", "tabs", "groups"}
HostEvents == {"editor", "tabs", "groups", "folders", "focus"}
Failed == {"openfail", "writefail"}

PathLike(l) == l.k = "str" /\ (includes(l.s, "/") \/ includes(l.s, "\\"))
HasPath(p) == p.k = "str" /\ p.s # <<>>

\* the first workspace folder, or ~
ActiveFolder(folders) ==
    IF folders.k = "list" /\ folders.l # <<>> THEN Head(folders.l) ELSE Tilde

\* the waterfall as section 4.2 words it: the editor's path, else the first
\* present, non-empty resource path of the tab, else a path-like label, else
\* the active folder; a step that throws yields nothing
Section42(editor, tab, folders) ==
    IF editor.k = "str" THEN editor.s
    ELSE IF tab.present /\ HasPath(tab.uri) THEN tab.uri.s
    ELSE IF tab.present /\ HasPath(tab.resource) THEN tab.resource.s
    ELSE IF tab.present /\ HasPath(tab.options) THEN tab.options.s
    ELSE IF tab.present /\ PathLike(tab.label) THEN tab.label.s
    ELSE ActiveFolder(folders)

\* C1: after every host event whose callback has returned, the active-path
\* file holds the section-4.2 waterfall of the host state, or is unchanged
\* if the write of that event failed.
C1_PathFileIsWaterfall ==
    [][(ev' \in HostEvents /\ ~escaped' /\ activeTextEditor'.k # "throw"
            /\ workspaceFolders'.k # "throw")
          => \/ editorFile'
                  = Section42(activeTextEditor', activeTab', workspaceFolders')
             \/ editorW' \in Failed /\ editorFile' = editorFile]_vars

\* C2: no callback, and not the startup pass either, lets an exception
\* escape to the host.
C2_NothingEscapes == ~escaped

\* C3: after startup or an active-editor-changed, tabs-changed or
\* tab-groups-changed event whose write succeeds while a text editor is open
\* on a document with path p, the active-path file holds exactly p, whatever
\* the tab and the workspace folders are.
C3_EditorPathWins ==
    (ev \in PathEvents /\ editorW = "ok" /\ activeTextEditor.k = "str")
        => editorFile = activeTextEditor.s

C3_Witness ==
    /\ ev = "tabs"
    /\ editorW = "ok"
    /\ activeTextEditor = Str(DocPath)
    /\ activeTab.uri = Str(UriPath)
    /\ workspaceFolders.l # <<>>
    /\ editorFile = DocPath

\* C4: with no text editor and a tab that yields no resource path (a tab
\* with no input object included) whose label contains / or \, a successful
\* write puts exactly the label in the active-path file; the active folder
\* is not used.
C4_LabelIsWritten ==
    (/\ ev \in PathEvents
     /\ editorW = "ok"
     /\ activeTextEditor.k = "absent"
     /\ activeTab.present
     /\ activeTab.uri = Absent
     /\ activeTab.resource = Absent
     /\ activeTab.options = Absent
     /\ PathLike(activeTab.label))
        => editorFile = activeTab.label.s

\* the tab with every throwing step read as a step that has no value
Quiet(p) == IF p.k = "throw" THEN Absent ELSE p
QuietTab(tab) ==
    [tab EXCEPT !.uri = Quiet(@), !.resource = Quiet(@), !.options = Quiet(@),
                !.label = Quiet(@)]

\* C5: a probing step of the tab that throws counts as "no value from this
\* step": the later steps still run, so the result is the one the same tab
\* gives with the throwing steps absent.
C5_ThrowIsNoValue ==
    (/\ ev = "resolved"
     /\ activeTextEditor.k = "absent"
     /\ workspaceFolders.k # "throw")
        => ret = resolveActivePath(activeTextEditor, QuietTab(activeTab),
                                   workspaceFolders)

\* C6: after startup and every sequence of events in which the folder
\* writes succeed and each change of the folder list is followed by its
\* workspace-folders-changed event, the active-folder file holds the path
\* of the first workspace folder, and ~ when none is open.
C6_FolderFileIsFirstFolder ==
    (/\ ev \in PathEvents \cup HostEvents \cup {"host"}
     /\ folderWritesOk
     /\ ~folderPending)
        => /\ workspaceFolders.k # "throw"
           /\ folderFile = ActiveFolder(workspaceFolders)

C6_Witness ==
    /\ ev = "folders"
    /\ folderWritesOk
    /\ Len(workspaceFolders.l) = 2
    /\ folderFile = workspaceFolders.l[1]
    /\ folderFile # workspaceFolders.l[2]

\* C7: a write that fails leaves the file with exactly the contents it had
\* before the attempt, and a write that succeeds stores the value computed
\* from the host state of that event.
C7_FailedWriteKeepsFile ==
    [][/\ editorW' \in Failed => editorFile' = editorFile
       /\ folderW' \in Failed => folderFile' = folderFile
       /\ editorW' = "ok"
            => editorFile' = OrEmpty(resolveActivePath(activeTextEditor',
                                        activeTab', workspaceFolders'))
       /\ folderW' = "ok"
            => folderFile' = OrEmpty(getFolder(workspaceFolders'))]_vars

C9_FirstNonEmptyPath ==
    (/\ ev = "resolved"
     /\ activeTextEditor.k = "absent"
     /\ activeTab.present /\ activeTab.input
     /\ activeTab = QuietTab(activeTab)
     /\ workspaceFolders.k # "throw")
        => /\ ret # Str(<<>>)
           /\ HasPath(activeTab.uri) => ret = activeTab.uri
           /\ (~HasPath(activeTab.uri) /\ HasPath(activeTab.resource))
                => ret = activeTab.resource
           /\ (~HasPath(activeTab.uri) /\ ~HasPath(activeTab.resource)
                 /\ HasPath(activeTab.options))
                => ret = activeTab.options

\* C10: each callback writes only the files of its row, and all of them
\* when it runs to its end: active-editor-changed the active-path file;
\* workspace-folders-changed and window-focus-changed the active-folder
\* file; tabs-changed, tab-groups-changed and startup both.  A write that
\* succeeds replaces the contents with the value computed.
C10_RowsOfTheTable ==
    [][/\ ev' = "editor"
            => /\ folderFile' = folderFile
               /\ folderW' = "none"
               /\ ~escaped' => editorW' # "none"
       /\ ev' \in {"folders", "focus"}
            => /\ editorFile' = editorFile
               /\ editorW' = "none"
               /\ ~escaped' => folderW' # "none"
       /\ ev' \in {"tabs", "groups", "startup"}
            => (~escaped' => editorW' # "none" /\ folderW' # "none")
       /\ editorW' = "ok"
            => editorFile' = OrEmpty(resolveActivePath(activeTextEditor',
                                        activeTab', workspaceFolders'))
       /\ folderW' = "ok"
            => folderFile' = OrEmpty(getFolder(workspaceFolders'))]_vars

C10_Witness ==
    /\ ev = "editor"
    /\ editorW = "ok"
    /\ editorFile = DocPath
    /\ folderPending
    /\ workspaceFolders.k = "list"
    /\ folderFile # ActiveFolder(workspaceFolders)
    /\ folderFile \in FolderPaths

====
